---- MODULE Spec2Model ----
(***************************************************************************)
(* A model of vips/foreign.go of govips: the format sniffer                *)
(* (DetermineImageType), the loader vipsLoadFromBuffer with its option     *)
(* resolution, BMP preprocessing, capability check and dispatch, and the   *)
(* save-to-buffer operations with their copy-then-free bridge (toBuff).    *)
(*                                                                         *)
(* Bytes are the integers 0..255 and a buffer is a sequence of bytes.      *)
(* Collaborators outside the file (the XML decoder, the bmp and png        *)
(* codecs, the native load and save primitives) are inputs: their outcome  *)
(* is chosen nondeterministically among the outcomes they can produce.     *)
(***************************************************************************)
EXTENDS Integers, Sequences, FiniteSets, TLC

VARIABLES
    buf,                  \* the caller's buffer (foreign.go:80, :184)
    xmlOK,                \* outcome of the lenient XML parse of buf: decodes with root "svg"
    detected,             \* result of a DetermineImageType call
    pc,                   \* position of the sniff / load call
    o,                    \* the ImportOption list passed to vipsLoadFromBuffer
    supportedImageTypes,  \* the capability table read by IsTypeSupported
    imageType,            \* local imageType of vipsLoadFromBuffer
    options,              \* local options of vipsLoadFromBuffer
    src,                  \* local src of vipsLoadFromBuffer
    calls,                \* native decode primitives invoked by the call, in order
    code,                 \* status returned by the native decode primitive
    ret,                  \* what vipsLoadFromBuffer returned (or the panic that ended it)
    savePc,               \* position of the save call
    saveFmt,              \* which vipsSave<fmt>ToBuffer is running
    encoded,              \* the bytes the native encoder produced
    ptr,                  \* local ptr of the save operation: "nil" or "p"
    cLen,                 \* local cLen of the save operation
    mem,                  \* state of the native allocation: "none", "live", "freed"
    memBytes,             \* what the native allocation holds
    frees,                \* number of times the native allocation was released
    saveErr,              \* status of the native encode primitive
    outBuf,               \* the slice a save returned: bytes and backing store
    opCounter             \* per-operation counters (incOpCounter)

loadVars == <<o, supportedImageTypes, imageType, options, src, calls, code, ret>>
saveVars == <<savePc, saveFmt, encoded, ptr, cLen, mem, memBytes, frees, saveErr, outBuf, opCounter>>
vars == <<buf, xmlOK, detected, pc, loadVars, saveVars>>

----------------------------------------------------------------------------
(* Bounds of the model *)

\* buffers handed to the sniffer are cut to every length 0..MaxBufLen
MaxBufLen == 16
\* longest ImportOption list
MaxOpts == 2
\* longest output of a native encoder
MaxOut == 2
\* saves counted per operation before the model stops starting new ones
MaxOps == 1

----------------------------------------------------------------------------
(* ImageType enum, foreign.go:23-35 *)

ImageTypeUnknown == "UNKNOWN"
ImageTypeGIF == "GIF"
ImageTypeJPEG == "JPEG"
ImageTypeMagick == "MAGICK"
ImageTypePDF == "PDF"
ImageTypePNG == "PNG"
ImageTypeSVG == "SVG"
ImageTypeTIFF == "TIFF"
ImageTypeWEBP == "WEBP"
ImageTypeHEIF == "HEIF"
ImageTypeBMP == "BMP"
\* ImageType is an int: a value outside the enum
ImageTypeInvalid == "INVALID"

\* the keys of the ImageTypes map, foreign.go:51-62
ImageTypes ==
    {ImageTypeGIF, ImageTypeJPEG, ImageTypeMagick, ImageTypePDF, ImageTypePNG,
     ImageTypeSVG, ImageTypeTIFF, ImageTypeWEBP, ImageTypeHEIF, ImageTypeBMP}

AllTags == ImageTypes \cup {ImageTypeUnknown, ImageTypeInvalid}

----------------------------------------------------------------------------
(* Signatures, foreign.go:106-178 *)

jpeg == <<255, 216, 255>>
gifHeader == <<71, 73, 70>>
pngHeader == <<137, 80, 78, 71>>
tifII == <<73, 73, 42, 0>>
tifMM == <<77, 77, 0, 42>>
webpHeader == <<87, 69, 66, 80>>
ftyp == <<102, 116, 121, 112>>
heic == <<104, 101, 105, 99>>
mif1 == <<109, 105, 102, 49>>
msf1 == <<109, 115, 102, 49>>
avif == <<97, 118, 105, 102>>
svg == <<60, 115, 118, 103>>
pdf == <<37, 80, 68, 70>>
bmpHeader == <<66, 77>>

\* len(buf) < 12, foreign.go:81
MinSniffLen == 12
\* math.Min(1024.0, ...), foreign.go:154
SvgScanLimit == 1024

----------------------------------------------------------------------------
(* bytes package helpers as the sniffers use them *)

Min(a, b) == IF a < b THEN a ELSE b

\* bytes.HasPrefix
HasPrefix(s, p) == Len(s) >= Len(p) /\ SubSeq(s, 1, Len(p)) = p

\* the Go slice expression s[lo:hi]
Slice(s, lo, hi) == SubSeq(s, lo + 1, hi)

\* bytes.Contains
Contains(s, p) == \E i \in 1..(Len(s) - Len(p) + 1) : SubSeq(s, i, i + Len(p) - 1) = p

isJPEG(b) == HasPrefix(b, jpeg)

isGIF(b) == HasPrefix(b, gifHeader)

isPNG(b) == HasPrefix(b, pngHeader)

isTIFF(b) == HasPrefix(b, tifII) \/ HasPrefix(b, tifMM)

isWEBP(b) == Slice(b, 8, 12) = webpHeader

isHEIFNoAvif(b) ==
    Slice(b, 4, 8) = ftyp /\ (\/ Slice(b, 8, 12) = heic
                              \/ Slice(b, 8, 12) = mif1
                              \/ Slice(b, 8, 12) = msf1)

isHEIF(b) ==
    Slice(b, 4, 8) = ftyp /\ (\/ Slice(b, 8, 12) = heic
                              \/ Slice(b, 8, 12) = avif
                              \/ Slice(b, 8, 12) = mif1
                              \/ Slice(b, 8, 12) = msf1)

\* x: the XML decoder decodes the whole buffer without error and the root's
\* local name is "svg"
isSVG(b, x) ==
    LET sub == Slice(b, 0, Min(SvgScanLimit, Len(b)))
    IN  IF Contains(sub, svg) THEN x ELSE FALSE

isPDF(b) == HasPrefix(b, pdf)

isBMP(b) == HasPrefix(b, bmpHeader)

DetermineImageTypeWebpFirst(b, x) ==
    IF Len(b) < MinSniffLen THEN ImageTypeUnknown
    ELSE IF isWEBP(b) THEN ImageTypeWEBP
    ELSE IF isJPEG(b) THEN ImageTypeJPEG
    ELSE IF isPNG(b) THEN ImageTypePNG
    ELSE IF isGIF(b) THEN ImageTypeGIF
    ELSE IF isTIFF(b) THEN ImageTypeTIFF
    ELSE IF isHEIF(b) THEN ImageTypeHEIF
    ELSE IF isSVG(b, x) THEN ImageTypeSVG
    ELSE IF isPDF(b) THEN ImageTypePDF
    ELSE IF isBMP(b) THEN ImageTypeBMP
    ELSE ImageTypeUnknown

DetermineImageType(b, x) ==
    IF Len(b) < MinSniffLen THEN ImageTypeUnknown
    ELSE IF isJPEG(b) THEN ImageTypeJPEG
    ELSE IF isPNG(b) THEN ImageTypePNG
    ELSE IF isGIF(b) THEN ImageTypeGIF
    ELSE IF isTIFF(b) THEN ImageTypeTIFF
    ELSE IF isWEBP(b) THEN ImageTypeWEBP
    ELSE IF isHEIF(b) THEN ImageTypeHEIF
    ELSE IF isSVG(b, x) THEN ImageTypeSVG
    ELSE IF isPDF(b) THEN ImageTypePDF
    ELSE IF isBMP(b) THEN ImageTypeBMP
    ELSE ImageTypeUnknown

----------------------------------------------------------------------------
(* Buffers given to the sniffer: a 4-byte head, bytes 4..8, bytes 8..12 and *)
(* a tail, zero-padded and cut to every length up to MaxBufLen.             *)

Zeros(n) == [i \in 1..n |-> 0]

SniffHeads ==
    {jpeg \o <<224>>, pngHeader, gifHeader \o <<56>>, tifII, tifMM, pdf,
     bmpHeader \o <<0, 0>>, svg, <<82, 73, 70, 70>>, <<0, 0, 0, 24>>}

SniffMids == {ftyp, Zeros(4)}

SniffBrands == {webpHeader, heic, avif, mif1, msf1, <<105, 115, 111, 109>>, Zeros(4)}

SniffTails == {<<>>, svg}

\* buffers whose <svg tag lies just inside, across and past the scanned prefix
LongSvgBuffers ==
    {Zeros(SvgScanLimit - 4) \o svg, Zeros(SvgScanLimit - 3) \o svg, Zeros(SvgScanLimit) \o svg}

SniffBuffers ==
    {SubSeq(h \o m \o b \o t \o Zeros(MaxBufLen), 1, n) :
        <<h, m, b, t, n>> \in SniffHeads \X SniffMids \X SniffBrands \X SniffTails \X (0..MaxBufLen)}
        \cup LongSvgBuffers

\* the parse can give root "svg" only for a buffer that holds an <svg tag
XmlOutcomes(b) == IF Contains(b, svg) THEN BOOLEAN ELSE {FALSE}

----------------------------------------------------------------------------
(* Capability table.  startupIfNeeded fills supportedImageTypes once, with  *)
(* one entry per key of ImageTypes; a lookup of any other ImageType gives   *)
(* the map's zero value, false.  Which formats the native build has is an   *)
(* input: PNG, Magick and BMP vary here, the rest are present.              *)

VaryingTypes == {ImageTypePNG, ImageTypeMagick, ImageTypeBMP}

SupportedTables ==
    {[t \in AllTags |-> IF t \in VaryingTypes THEN t \in S ELSE t \in ImageTypes] :
        S \in SUBSET VaryingTypes}

IsTypeSupportedAlways(t) == TRUE

IsTypeSupported(t) == supportedImageTypes[t]

----------------------------------------------------------------------------
(* Option resolution, foreign.go:190-219.  ImportOptions is flattened to    *)
(* one record: imageType and the fields of params.  An ImportOption is a    *)
(* caller's function on *ImportOptions; it is modelled by the fields it     *)
(* assigns, a record from those fields to the values written.               *)

DefaultOptionsAutorotateJPEG(sniffed) ==
    [imageType |-> ImageTypeUnknown, shrink |-> 1, fail |-> FALSE,
     autorotate |-> (sniffed = ImageTypeJPEG), page |-> 0, n |-> 1, scale |-> 1,
     subifd |-> -1, dpi |-> 72, unlimited |-> FALSE, thumbnail |-> FALSE,
     density |-> "72x72"]

DefaultOptions(sniffed) ==
    [imageType |-> ImageTypeUnknown, shrink |-> 1, fail |-> FALSE,
     autorotate |-> (sniffed = ImageTypeHEIF), page |-> 0, n |-> 1, scale |-> 1,
     subifd |-> -1, dpi |-> 72, unlimited |-> FALSE, thumbnail |-> FALSE,
     density |-> "72x72"]

\* option(&options)
ApplyOption(m, opt) == [f \in DOMAIN opt |-> IF f \in DOMAIN m THEN m[f] ELSE opt[f]]

RECURSIVE ApplyOptionsFirstWins(_, _)
ApplyOptionsFirstWins(ms, opt) ==
    IF ms = <<>> THEN opt
    ELSE ApplyOption(Head(ms), ApplyOptionsFirstWins(Tail(ms), opt))

\* for _, option := range o { option(&options) }
RECURSIVE ApplyOptions(_, _)
ApplyOptions(ms, opt) ==
    IF ms = <<>> THEN opt
    ELSE ApplyOptions(Tail(ms), ApplyOption(Head(ms), opt))

\* if options.imageType != ImageTypeUnknown { imageType = options.imageType }
ResolveType(sniffed, opt) ==
    IF opt.imageType # ImageTypeUnknown THEN opt.imageType ELSE sniffed

\* the ImportOptions the model's callers pass
OverrideTags ==
    {ImageTypeJPEG, ImageTypeHEIF, ImageTypeBMP, ImageTypeMagick, ImageTypeInvalid}

Mutators ==
    {[imageType |-> t] : t \in OverrideTags}
        \cup {[autorotate |-> b] : b \in BOOLEAN}
        \cup {[page |-> 1, n |-> 2]}

OptionLists == UNION {[1..k -> Mutators] : k \in 0..MaxOpts}

----------------------------------------------------------------------------
(* BMP preprocessing, foreign.go:281-294 *)

\* a 1x1 24-bit BMP: 14-byte file header, 40-byte info header, one padded pixel
ValidBMP ==
    bmpHeader \o <<58, 0, 0, 0>> \o Zeros(4) \o <<54, 0, 0, 0>>
        \o <<40, 0, 0, 0>> \o <<1, 0, 0, 0>> \o <<1, 0, 0, 0>> \o <<1, 0>> \o <<24, 0>>
        \o Zeros(4) \o <<4, 0, 0, 0>> \o Zeros(16)
        \o <<0, 0, 255, 0>>

\* what png.Encode writes: the PNG signature, then the chunks
EncodedPNG == pngHeader \o <<13, 10, 26, 10>> \o <<0, 0, 0, 13, 73, 72, 68, 82>>

\* bmp.Decode needs the "BM" file header and an info header; past that the
\* outcome of the two codecs is theirs to decide
TranscodeOutcomes(s) ==
    IF HasPrefix(s, bmpHeader) /\ Len(s) >= 14 + 40
    THEN {"ok", "bmp decode error", "png encode error"}
    ELSE {"bmp decode error"}

bmpToPNGPassThrough(s, outcome) ==
    IF outcome = "ok" THEN [buf |-> s, err |-> "nil"]
    ELSE [buf |-> <<>>, err |-> outcome]

bmpToPNG(s, outcome) ==
    IF outcome = "ok" THEN [buf |-> EncodedPNG, err |-> "nil"]
    ELSE [buf |-> <<>>, err |-> outcome]

----------------------------------------------------------------------------
(* Dispatch, foreign.go:237-272 *)

\* the cases of the switch
DispatchTypes ==
    {ImageTypeJPEG, ImageTypePNG, ImageTypeWEBP, ImageTypeTIFF, ImageTypeGIF,
     ImageTypePDF, ImageTypeSVG, ImageTypeHEIF, ImageTypeMagick}

LoadPrimitive(t) ==
    CASE t = ImageTypeJPEG -> "load_jpeg_buffer"
      [] t = ImageTypePNG -> "load_png_buffer"
      [] t = ImageTypeWEBP -> "load_webp_buffer"
      [] t = ImageTypeTIFF -> "load_tiff_buffer"
      [] t = ImageTypeGIF -> "load_gif_buffer"
      [] t = ImageTypePDF -> "load_pdf_buffer"
      [] t = ImageTypeSVG -> "load_svg_buffer"
      [] t = ImageTypeHEIF -> "load_heif_buffer"
      [] t = ImageTypeMagick -> "load_magick_buffer"

ForwardedFields(t) ==
    CASE t = ImageTypeJPEG -> {"shrink", "fail", "autorotate"}
      [] t = ImageTypePNG -> {}
      [] t = ImageTypeWEBP -> {"shrink"}
      [] t = ImageTypeTIFF -> {"page", "n", "autorotate", "subifd"}
      [] t = ImageTypeGIF -> {"page", "n"}
      [] t = ImageTypePDF -> {"page", "n", "dpi", "scale"}
      [] t = ImageTypeSVG -> {"dpi", "scale", "unlimited"}
      [] t = ImageTypeHEIF -> {"page", "n", "thumbnail"}
      [] t = ImageTypeMagick -> {"page", "n", "density"}

\* one native call: the primitive, the buffer whose first byte's address is
\* passed, and the parameters forwarded
NativeCall(t, s, opt) ==
    [prim |-> LoadPrimitive(t), src |-> s,
     params |-> [f \in ForwardedFields(t) |-> opt[f]]]

NoReturn == [out |-> "nil", tag |-> ImageTypeUnknown, err |-> "nil", panic |-> "pending"]

ReturnError(e) == [out |-> "nil", tag |-> ImageTypeUnknown, err |-> e, panic |-> "none"]

ReturnImage(t) == [out |-> "image", tag |-> t, err |-> "nil", panic |-> "none"]

Panic(v) == [out |-> "nil", tag |-> ImageTypeUnknown, err |-> "nil", panic |-> v]

----------------------------------------------------------------------------
(* Buffers given to the loader *)

LoadBuffers ==
    {<<>>,
     jpeg,
     jpeg \o <<224>> \o Zeros(12),
     pngHeader \o Zeros(12),
     <<0, 0, 0, 24>> \o ftyp \o heic \o Zeros(4),
     ValidBMP,
     bmpHeader \o Zeros(10),
     svg \o <<47, 62>> \o Zeros(6),
     Zeros(12)}

----------------------------------------------------------------------------
(* vipsLoadFromBuffer, foreign.go:184-279 *)

\* lines 185-219: sniff, build the defaults, apply the options, take the override
LoadBegin ==
    /\ pc = "idle"
    /\ \E b \in LoadBuffers, opts \in OptionLists :
         \E x \in XmlOutcomes(b) :
           LET sniffed == DetermineImageType(b, x)
               opt == ApplyOptions(opts, DefaultOptions(sniffed))
           IN  /\ buf' = b
               /\ xmlOK' = x
               /\ o' = opts
               /\ src' = b
               /\ options' = opt
               /\ imageType' = ResolveType(sniffed, opt)
    /\ pc' = "preprocess"
    /\ UNCHANGED <<detected, supportedImageTypes, calls, code, ret, saveVars>>

\* lines 221-228
LoadPreprocess ==
    /\ pc = "preprocess"
    /\ IF imageType = ImageTypeBMP
       THEN \E outcome \in TranscodeOutcomes(src) :
              LET r == bmpToPNG(src, outcome)
              IN  IF r.err # "nil"
                  THEN /\ ret' = ReturnError(r.err)
                       /\ pc' = "done"
                       /\ UNCHANGED <<src, imageType>>
                  ELSE /\ src' = r.buf
                       /\ imageType' = ImageTypePNG
                       /\ pc' = "check"
                       /\ UNCHANGED ret
       ELSE /\ pc' = "check"
            /\ UNCHANGED <<src, imageType, ret>>
    /\ UNCHANGED <<buf, xmlOK, detected, o, supportedImageTypes, options, calls, code, saveVars>>

\* lines 230-233
LoadCheck ==
    /\ pc = "check"
    /\ IF ~IsTypeSupported(imageType)
       THEN /\ ret' = ReturnError("ErrUnsupportedImageFormat")
            /\ pc' = "done"
       ELSE /\ pc' = "dispatch"
            /\ UNCHANGED ret
    /\ UNCHANGED <<buf, xmlOK, detected, o, supportedImageTypes, imageType, options, src,
                   calls, code, saveVars>>

\* lines 237-272: &src[0] is evaluated in the case's call expression, and
\* indexing an empty slice panics before the primitive is entered
LoadDispatch ==
    /\ pc = "dispatch"
    /\ IF imageType \notin DispatchTypes
       THEN /\ ret' = Panic("ErrUnsupportedImageFormat")
            /\ pc' = "done"
            /\ UNCHANGED <<calls, code>>
       ELSE IF Len(src) = 0
       THEN /\ ret' = Panic("index out of range")
            /\ pc' = "done"
            /\ UNCHANGED <<calls, code>>
       ELSE /\ calls' = Append(calls, NativeCall(imageType, src, options))
            /\ code' \in {0, 1}
            /\ pc' = "return"
            /\ UNCHANGED ret
    /\ UNCHANGED <<buf, xmlOK, detected, o, supportedImageTypes, imageType, options, src,
                   saveVars>>

\* lines 274-278
LoadReturn ==
    /\ pc = "return"
    /\ ret' = IF code # 0 THEN ReturnError("vips error") ELSE ReturnImage(imageType)
    /\ pc' = "done"
    /\ UNCHANGED <<buf, xmlOK, detected, o, supportedImageTypes, imageType, options, src,
                   calls, code, saveVars>>

SaveIdle ==
    /\ savePc = "idle"
    /\ saveFmt = "none"
    /\ encoded = <<>>
    /\ ptr = "nil"
    /\ cLen = 0
    /\ mem = "none"
    /\ memBytes = <<>>
    /\ frees = 0
    /\ saveErr = 0
    /\ outBuf = [bytes |-> <<>>, backing |-> "none"]
    /\ opCounter = [f \in {"png", "webp", "tiff", "heif", "jpeg"} |-> 0]

LoadIdle ==
    /\ o = <<>>
    /\ imageType = ImageTypeUnknown
    /\ options = DefaultOptions(ImageTypeUnknown)
    /\ src = <<>>
    /\ calls = <<>>
    /\ code = 0
    /\ ret = NoReturn

InitLoad ==
    /\ pc = "idle"
    /\ buf = <<>>
    /\ xmlOK = FALSE
    /\ detected = ImageTypeUnknown
    /\ supportedImageTypes \in SupportedTables
    /\ LoadIdle
    /\ SaveIdle

NextLoad == LoadBegin \/ LoadPreprocess \/ LoadCheck \/ LoadDispatch \/ LoadReturn

SpecLoad == InitLoad /\ [][NextLoad]_vars

----------------------------------------------------------------------------
(* DetermineImageType called on its own, foreign.go:80-104 *)

Classify ==
    /\ pc = "idle"
    /\ \E b \in SniffBuffers :
         \E x \in XmlOutcomes(b) :
           /\ buf' = b
           /\ xmlOK' = x
           /\ detected' = DetermineImageType(b, x)
    /\ pc' = "classified"
    /\ UNCHANGED <<loadVars, saveVars>>

InitSniff ==
    /\ pc = "idle"
    /\ buf = <<>>
    /\ xmlOK = FALSE
    /\ detected = ImageTypeUnknown
    /\ supportedImageTypes = [t \in AllTags |-> t \in ImageTypes]
    /\ LoadIdle
    /\ SaveIdle

NextSniff == Classify

SpecSniff == InitSniff /\ [][NextSniff]_vars

----------------------------------------------------------------------------
(* Save operations, foreign.go:296-381.  The five vipsSave<fmt>ToBuffer     *)
(* functions have one shape: count the operation, call the native encoder   *)
(* with &ptr and &cLen, then either handleSaveBufferError(ptr) or           *)
(* toBuff(ptr, cLen).  The native allocation is the record                  *)
(* [mem, bytes, frees].                                                     *)

SaveFormats == {"png", "webp", "tiff", "heif", "jpeg"}

RECURSIVE SeqsOfLen(_, _)
SeqsOfLen(S, n) ==
    IF n = 0 THEN {<<>>}
    ELSE {Append(s, x) : s \in SeqsOfLen(S, n - 1), x \in S}

\* what a native encoder may write
EncoderOutputs == UNION {SeqsOfLen({7, 9}, n) : n \in 0..MaxOut}

\* C.GoBytes(ptr, n): a copy, in Go memory, of the n bytes at ptr.  Reading
\* an allocation that was already released may give anything.
GoBytes(h, p, n) ==
    IF p = "nil" THEN {<<>>}
    ELSE IF h.mem = "live" THEN {SubSeq(h.bytes, 1, n)}
    ELSE SeqsOfLen({0, 7, 9}, n)

\* gFreePointer(ptr): g_free, a no-op on a nil pointer
gFreePointer(h, p) ==
    IF p = "nil" THEN h
    ELSE [mem |-> "freed", bytes |-> h.bytes, frees |-> h.frees + 1]

\* handleSaveBufferError(ptr): releases the out-parameter's allocation, if
\* any, and returns the native diagnostic as the error
handleSaveBufferError(h, p) ==
    [out |-> [bytes |-> <<>>, backing |-> "none"], heap |-> gFreePointer(h, p)]

toBuffFreeFirst(h, p, n) ==
    LET h2 == gFreePointer(h, p)
    IN  {[out |-> [bytes |-> b, backing |-> "go"], heap |-> h2] : b \in GoBytes(h2, p, n)}

\* foreign.go:376-381: the possible results of toBuff
toBuff(h, p, n) ==
    {[out |-> [bytes |-> b, backing |-> "go"], heap |-> gFreePointer(h, p)] :
        b \in GoBytes(h, p, n)}

\* lines 297-305 (and 313-322, 330-338, 346-353, 361-369): incOpCounter and
\* the native encode call.  On status 0 the encoder has allocated the output;
\* on failure it may or may not have allocated anything.
SaveCall ==
    /\ savePc = "idle"
    /\ \E fmt \in SaveFormats, data \in EncoderOutputs, st \in {0, 1}, allocated \in BOOLEAN :
         /\ opCounter[fmt] < MaxOps
         /\ st = 0 => allocated
         /\ saveFmt' = fmt
         /\ opCounter' = [opCounter EXCEPT ![fmt] = @ + 1]
         /\ saveErr' = st
         /\ encoded' = IF allocated THEN data ELSE <<>>
         /\ ptr' = IF allocated THEN "p" ELSE "nil"
         /\ mem' = IF allocated THEN "live" ELSE "none"
         /\ memBytes' = IF allocated THEN data ELSE <<>>
         /\ cLen' = IF allocated THEN Len(data) ELSE 0
    /\ frees' = 0
    /\ savePc' = "called"
    /\ UNCHANGED <<outBuf, buf, xmlOK, detected, pc, loadVars>>

\* lines 305-309: the error return or toBuff
SaveFinish ==
    /\ savePc = "called"
    /\ LET h == [mem |-> mem, bytes |-> memBytes, frees |-> frees]
       IN  \E r \in (IF saveErr # 0 THEN {handleSaveBufferError(h, ptr)}
                     ELSE toBuff(h, ptr, cLen)) :
             /\ outBuf' = r.out
             /\ mem' = r.heap.mem
             /\ memBytes' = r.heap.bytes
             /\ frees' = r.heap.frees
    /\ savePc' = "done"
    /\ UNCHANGED <<saveFmt, encoded, ptr, cLen, saveErr, opCounter,
                   buf, xmlOK, detected, pc, loadVars>>

\* the caller takes the result; the next save starts from fresh locals
SaveReturn ==
    /\ savePc = "done"
    /\ savePc' = "idle"
    /\ saveFmt' = "none"
    /\ encoded' = <<>>
    /\ ptr' = "nil"
    /\ cLen' = 0
    /\ mem' = "none"
    /\ memBytes' = <<>>
    /\ frees' = 0
    /\ saveErr' = 0
    /\ outBuf' = [bytes |-> <<>>, backing |-> "none"]
    /\ UNCHANGED <<opCounter, buf, xmlOK, detected, pc, loadVars>>

InitSave ==
    /\ pc = "idle"
    /\ buf = <<>>
    /\ xmlOK = FALSE
    /\ detected = ImageTypeUnknown
    /\ supportedImageTypes = [t \in AllTags |-> t \in ImageTypes]
    /\ LoadIdle
    /\ SaveIdle

NextSave == SaveCall \/ SaveFinish \/ SaveReturn

SpecSave == InitSave /\ [][NextSave]_vars

----------------------------------------------------------------------------
(* Properties *)

Sniffed == DetermineImageType(buf, xmlOK)

\* the tag in effect after the override: the overridden tag if a mutator set
\* one, else the sniffed tag
EffectiveTag == IF options.imageType # ImageTypeUnknown THEN options.imageType ELSE Sniffed

\* the call got to the dispatch step
AtDispatch == pc \in {"dispatch", "return"} \/ (pc = "done" /\ calls # <<>>)

TranscodeErrors == {"bmp decode error", "png encode error"}

RuleOrder ==
    <<ImageTypeJPEG, ImageTypePNG, ImageTypeGIF, ImageTypeTIFF, ImageTypeWEBP,
      ImageTypeHEIF, ImageTypeSVG, ImageTypePDF, ImageTypeBMP>>

RuleMatches(t, b, x) ==
    CASE t = ImageTypeJPEG -> SubSeq(b, 1, 3) = <<255, 216, 255>>
      [] t = ImageTypePNG -> SubSeq(b, 1, 4) = <<137, 80, 78, 71>>
      [] t = ImageTypeGIF -> SubSeq(b, 1, 3) = <<71, 73, 70>>
      [] t = ImageTypeTIFF -> SubSeq(b, 1, 4) \in {<<73, 73, 42, 0>>, <<77, 77, 0, 42>>}
      [] t = ImageTypeWEBP -> SubSeq(b, 9, 12) = <<87, 69, 66, 80>>
      [] t = ImageTypeHEIF ->
            /\ SubSeq(b, 5, 8) = <<102, 116, 121, 112>>
            /\ SubSeq(b, 9, 12) \in {heic, avif, mif1, msf1}
      [] t = ImageTypeSVG ->
            /\ Contains(SubSeq(b, 1, IF Len(b) < 1024 THEN Len(b) ELSE 1024), svg)
            /\ x
      [] t = ImageTypePDF -> SubSeq(b, 1, 4) = <<37, 80, 68, 70>>
      [] t = ImageTypeBMP -> SubSeq(b, 1, 2) = <<66, 77>>

FirstMatch(b, x) ==
    LET hits == {i \in 1..Len(RuleOrder) : RuleMatches(RuleOrder[i], b, x)}
    IN  IF hits = {} THEN ImageTypeUnknown
        ELSE RuleOrder[CHOOSE i \in hits : \A j \in hits : i <= j]

\* C1: DetermineImageType returns Unknown for a buffer shorter than 12 bytes
\* and otherwise the tag of the first matching rule in the order JPEG, PNG,
\* GIF, TIFF, WEBP, HEIF, SVG, PDF, BMP (Unknown when none matches); a buffer
\* of 12 bytes or more starting FF D8 FF is JPEG whatever follows.
C1_FirstMatchingRule ==
    pc = "classified" =>
        /\ Len(buf) < 12 => detected = ImageTypeUnknown
        /\ Len(buf) >= 12 => detected = FirstMatch(buf, xmlOK)
        /\ (Len(buf) >= 12 /\ SubSeq(buf, 1, 3) = <<255, 216, 255>>) => detected = ImageTypeJPEG

C1_Witness ==
    /\ pc = "classified"
    /\ Len(buf) >= 12
    /\ SubSeq(buf, 1, 3) = <<255, 216, 255>>
    /\ SubSeq(buf, 9, 12) = webpHeader
    /\ detected = ImageTypeJPEG

HeifBrands == {heic, avif, mif1, msf1}

\* a buffer of 12 bytes or more with ftyp at offset 4..8 that none of the
\* rules JPEG, PNG, GIF, TIFF, WEBP matches
FtypNoEarlierRule ==
    /\ pc = "classified"
    /\ Len(buf) >= 12
    /\ SubSeq(buf, 5, 8) = ftyp
    /\ \A i \in 1..5 : ~RuleMatches(RuleOrder[i], buf, xmlOK)

\* C2 as stated: with ftyp at offset 4..8 and no earlier rule matching, the
\* result is HEIF for the brands heic, avif, mif1, msf1 and Unknown for any
\* other brand.
C2_OtherBrandUnknown ==
    FtypNoEarlierRule =>
        detected = IF SubSeq(buf, 9, 12) \in HeifBrands THEN ImageTypeHEIF ELSE ImageTypeUnknown

\* C2 amended: with ftyp at offset 4..8 and no earlier rule matching, the
\* result is HEIF for the brands heic, avif, mif1, msf1; for any other brand
\* it is what the later rules SVG, PDF, BMP give, in that order, and Unknown
\* only when none of them matches.
C2_OtherBrandFallsThrough ==
    FtypNoEarlierRule =>
        IF SubSeq(buf, 9, 12) \in HeifBrands THEN detected = ImageTypeHEIF
        ELSE detected =
                IF RuleMatches(ImageTypeSVG, buf, xmlOK) THEN ImageTypeSVG
                ELSE IF SubSeq(buf, 1, 4) = pdf THEN ImageTypePDF
                ELSE IF SubSeq(buf, 1, 2) = bmpHeader THEN ImageTypeBMP
                ELSE ImageTypeUnknown

C2_Witness ==
    /\ FtypNoEarlierRule
    /\ SubSeq(buf, 9, 12) \notin HeifBrands
    /\ SubSeq(buf, 1, 2) = bmpHeader
    /\ detected = ImageTypeBMP

\* the format override the mutator list left is a tag the table marks unsupported
OverrideUnsupported ==
    /\ pc # "idle"
    /\ options.imageType # ImageTypeUnknown
    /\ ~supportedImageTypes[options.imageType]

\* C3 as stated: whenever the format override is a tag the capability table
\* marks unsupported, the call returns ErrUnsupportedImageFormat, for every
\* buffer, and no native decode primitive is invoked.
C3_UnsupportedOverrideFails ==
    OverrideUnsupported =>
        /\ calls = <<>>
        /\ pc = "done" => ret = ReturnError("ErrUnsupportedImageFormat")

\* C3 amended: whenever the format override is a tag other than BMP that the
\* table marks unsupported, the call returns ErrUnsupportedImageFormat, never
\* reaches dispatch and invokes no native primitive; an override to BMP is
\* transcoded before the capability check, so the call returns the transcode
\* error or goes on as PNG, with ErrUnsupportedImageFormat exactly when PNG
\* is unsupported.
C3_UnsupportedOverrideFailsExceptBMP ==
    OverrideUnsupported =>
        IF options.imageType # ImageTypeBMP
        THEN /\ calls = <<>>
             /\ pc \in {"preprocess", "check", "done"}
             /\ pc = "done" => ret = ReturnError("ErrUnsupportedImageFormat")
        ELSE pc = "done" =>
                \/ ret.err \in TranscodeErrors /\ ret.out = "nil" /\ calls = <<>>
                \/ /\ imageType = ImageTypePNG
                   /\ src = EncodedPNG
                   /\ ret.panic = "none"
                   /\ (ret = ReturnError("ErrUnsupportedImageFormat"))
                        <=> ~supportedImageTypes[ImageTypePNG]

C3_Witness ==
    /\ pc = "done"
    /\ Len(buf) > 0
    /\ options.imageType = ImageTypeMagick
    /\ ~supportedImageTypes[ImageTypeMagick]
    /\ ret = ReturnError("ErrUnsupportedImageFormat")
    /\ calls = <<>>

\* C4: with no mutators, the configuration at dispatch is shrink=1,
\* fail=false, page=0, n=1, scale=1, subifd=-1, dpi=72, unlimited=false,
\* thumbnail=false, density="72x72", no format override, and autorotate is
\* true exactly when the finally resolved tag is HEIF.
C4_DefaultsAtDispatch ==
    (AtDispatch /\ Len(o) = 0) =>
        options = [imageType |-> ImageTypeUnknown, shrink |-> 1, fail |-> FALSE,
                   autorotate |-> (imageType = ImageTypeHEIF), page |-> 0, n |-> 1,
                   scale |-> 1, subifd |-> -1, dpi |-> 72, unlimited |-> FALSE,
                   thumbnail |-> FALSE, density |-> "72x72"]

C4_Witness ==
    /\ pc = "return"
    /\ Len(o) = 0
    /\ imageType = ImageTypeHEIF
    /\ options.autorotate
    /\ options.shrink = 1

\* the positions of the mutators that set field f
Setters(f) == {i \in 1..Len(o) : f \in DOMAIN o[i]}

\* C5: every field of the resolved configuration, the format override
\* included, holds the value written by the last mutator in the list that set
\* it, or its default if none did.
C5_LastMutatorWins ==
    pc \notin {"idle", "classified"} =>
        \A f \in DOMAIN options :
            options[f] =
                IF Setters(f) = {} THEN DefaultOptions(Sniffed)[f]
                ELSE o[CHOOSE i \in Setters(f) : \A j \in Setters(f) : j <= i][f]

C5_Witness ==
    /\ pc = "preprocess"
    /\ Len(o) = 2
    /\ Setters("autorotate") = {1, 2}
    /\ o[1].autorotate # o[2].autorotate
    /\ options.autorotate = o[2].autorotate

\* C6: when no mutator sets autorotate, the autorotate value at dispatch is
\* true exactly when the tag in effect (the override if set, else the sniffed
\* tag) is HEIF.
C6_AutorotateFollowsEffectiveTag ==
    (AtDispatch /\ Setters("autorotate") = {}) =>
        options.autorotate = (EffectiveTag = ImageTypeHEIF)

\* every native call of a BMP-resolved load is the PNG primitive on the
\* transcoded buffer
OnlyTranscodedPNGForwarded ==
    \A i \in 1..Len(calls) :
        /\ calls[i].prim = "load_png_buffer"
        /\ calls[i].src = EncodedPNG
        /\ calls[i].src # buf

TranscodeFailed == ret.err \in TranscodeErrors /\ ret.out = "nil" /\ calls = <<>>

TranscodedAndDispatched ==
    /\ Len(calls) = 1
    /\ OnlyTranscodedPNGForwarded
    /\ ret.out = "image" => ret.tag = ImageTypePNG

\* C7 as stated: when the resolved tag is BMP, either the transcode fails and
\* the call returns that error with no handle and no native call, or the
\* transcoded buffer is dispatched as PNG and a success reports PNG.
C7_FailsOrDispatchesPNG ==
    (pc = "done" /\ EffectiveTag = ImageTypeBMP) =>
        TranscodeFailed \/ TranscodedAndDispatched

\* C7 amended: when the resolved tag is BMP, the BMP tag and the original
\* buffer are never forwarded to a native primitive and the reported tag is
\* never BMP; the call ends in one of three ways: the transcode fails (that
\* error, no handle, no native call), or PNG is unsupported
\* (ErrUnsupportedImageFormat, no native call), or the transcoded buffer is
\* dispatched as PNG and a success reports PNG.
C7_FailsOrUnsupportedOrDispatchesPNG ==
    (pc # "idle" /\ EffectiveTag = ImageTypeBMP) =>
        /\ OnlyTranscodedPNGForwarded
        /\ ret.tag # ImageTypeBMP
        /\ pc \in {"dispatch", "return"} => imageType = ImageTypePNG /\ src = EncodedPNG
        /\ pc = "done" =>
             \/ TranscodeFailed
             \/ /\ ~supportedImageTypes[ImageTypePNG]
                /\ ret = ReturnError("ErrUnsupportedImageFormat")
                /\ calls = <<>>
             \/ TranscodedAndDispatched

C7_Witness ==
    /\ pc = "done"
    /\ buf = ValidBMP
    /\ Len(o) = 0
    /\ Len(calls) = 1
    /\ calls[1].src = EncodedPNG
    /\ ret = ReturnImage(ImageTypePNG)

\* the call ended past the capability check
PassedCheck ==
    /\ pc = "done"
    /\ ret.err \notin (TranscodeErrors \cup {"ErrUnsupportedImageFormat"})

\* C8: every call that passes the capability check invokes exactly one native
\* primitive, the one for the resolved tag, never panics, and returns an
\* error with no handle and tag Unknown on a non-zero status, the handle with
\* the resolved tag on status zero.
C8_ExactlyOnePrimitive ==
    PassedCheck =>
        /\ ret.panic = "none"
        /\ Len(calls) = 1
        /\ imageType \in DispatchTypes
        /\ calls[1].prim = LoadPrimitive(imageType)
        /\ ret = IF code # 0 THEN ReturnError("vips error") ELSE ReturnImage(imageType)

\* the part of C8 the code keeps: the default branch of the switch is never taken
DefaultBranchUnreachable ==
    /\ pc = "dispatch" => imageType \in DispatchTypes
    /\ ret.panic # "ErrUnsupportedImageFormat"

\* C9: in every save, on success and on failure, the native output buffer is
\* released exactly once (never twice, never leaked); on success the returned
\* bytes are the encoder's output, copied into Go memory before the release.
C9_ReleasedOnceAfterCopy ==
    /\ frees <= 1
    /\ savePc = "done" =>
         /\ ptr # "nil" => (mem = "freed" /\ frees = 1)
         /\ ptr = "nil" => (mem = "none" /\ frees = 0)
         /\ saveErr = 0 => (outBuf.bytes = encoded /\ outBuf.backing = "go")
         /\ saveErr # 0 => outBuf.backing = "none"

C9_Witness ==
    /\ savePc = "done"
    /\ saveErr = 0
    /\ Len(encoded) > 0
    /\ outBuf = [bytes |-> encoded, backing |-> "go"]
    /\ mem = "freed"
    /\ frees = 1

\* C10: whenever the call reaches the dispatch step the source buffer is
\* non-empty, and a zero-length buffer always ends in a returned error, never
\* in a panic.
C10_NonEmptyAtDispatch ==
    /\ pc = "dispatch" => Len(src) > 0
    /\ (pc = "done" /\ Len(buf) = 0) => (ret.panic = "none" /\ ret.err # "nil")

====
